---- MODULE Spec2Model ----
(***************************************************************************)
(* Model of rioyokotalab/moe-recipes: the startup sequence of              *)
(* finetuning.py (main) run by several ranks, and the telemetry reporter   *)
(* of utils/wandb_utils.py (log_wandb).                                    *)
(*                                                                         *)
(* Python floats are modelled as exact rationals <<n, d>> in lowest terms  *)
(* (d > 0); a value scaled by a power of ten carries the exponent apart,   *)
(* and the transcendental / irrational results (exp, ** 0.5) are kept      *)
(* symbolic.                                                               *)
(***************************************************************************)
EXTENDS Integers, Sequences, FiniteSets, TLC

\* ------------------------------------------------------------------ bounds
NumRanks == 2
MaxCkpt == 2
MaxGlobalBatch == 3
MaxMicroBatch == 2
MaxEvalInterval == 2
MaxEvalIters == 1
MaxTrainIters == 1
MaxElapsed == 2
MaxHidden == 3
MaxHeads == 2
MaxSize == 2
MaxLayers == 2
MaxSeq == 2
MaxExperts == 2
MaxBatch == 2
MaxGAS == 1
MaxWorld == 2
MaxScale == 2

\* ------------------------------------------------------- exact arithmetic
Abs(x) == IF x < 0 THEN -x ELSE x

Max2(a, b) == IF a >= b THEN a ELSE b

RECURSIVE GCD(_, _)
GCD(a, b) == IF b = 0 THEN a ELSE GCD(b, a % b)

\* the float n / d, in lowest terms
Rat(n, d) ==
    LET g == GCD(Abs(n), d)
    IN  <<n \div g, d \div g>>

RInt(n) == <<n, 1>>

RAdd(x, y) == Rat(x[1] * y[2] + y[1] * x[2], x[2] * y[2])

RMul(x, y) == Rat(x[1] * y[1], x[2] * y[2])

\* x / y for y > 0
RDiv(x, y) == Rat(x[1] * y[2], x[2] * y[1])

\* ---------------------------------------------------------- tensor helpers
RECURSIVE SumSeq(_)
SumSeq(s) == IF s = <<>> THEN 0 ELSE Head(s) + SumSeq(Tail(s))

\* t.max() and t.min()
RECURSIVE TensorMax(_)
TensorMax(s) == IF Len(s) = 1 THEN s[1] ELSE Max2(Head(s), TensorMax(Tail(s)))

RECURSIVE TensorMin(_)
TensorMin(s) == IF Len(s) = 1 THEN s[1] ELSE -Max2(-Head(s), -TensorMin(Tail(s)))

\* torch.norm(t) ** 2: the sum of the squares of the elements
NormSq(t) == SumSeq([i \in 1..Len(t) |-> t[i] * t[i]])

\* torch.norm(t, p=1): the sum of the absolute values
NormL1(t) == SumSeq([i \in 1..Len(t) |-> Abs(t[i])])

\* t.sqrt(), elementwise; the modelled variances are perfect squares
ISqrt(n) == CHOOSE k \in 0..n : k * k = n

TensorSqrt(t) == [i \in 1..Len(t) |-> ISqrt(t[i])]

\* ------------------------------------------------ log_wandb: its formulas
\* hasattr(model.config, name)
hasattr(config, name) == name \in DOMAIN config

\* the config's num_experts_per_tok never read
num_experts_routed_to_ignoring_config(config) == 1

\* num_experts_routed_to: 1 unless the config carries num_experts_per_tok
num_experts_routed_to(config) ==
    IF hasattr(config, "num_experts_per_tok")
    THEN config.num_experts_per_tok
    ELSE 1

\* activation_function_factor: 1 (GELU), 1 + 0.5 only for the string "silu"
activation_function_factor(activation_func) ==
    IF activation_func = "silu" THEN Rat(3, 2) ELSE RInt(1)

\* the head width rounded up instead of floored
kv_channels_rounded_up(hidden_size, num_attention_heads) ==
    (hidden_size + num_attention_heads - 1) \div num_attention_heads

\* kv_channels = hidden_size // num_attention_heads
kv_channels(hidden_size, num_attention_heads) ==
    hidden_size \div num_attention_heads

\* query_projection_size / hidden_size
query_projection_to_hidden_size_ratio(hidden_size, num_attention_heads) ==
    LET query_projection_size ==
            kv_channels(hidden_size, num_attention_heads) * num_attention_heads
    IN  Rat(query_projection_size, hidden_size)

\* world_size pulled into the divisor
tokens_per_sec_divided_by_world(batch_size, sequence_length, gas, elapsed, world_size) ==
    RDiv(RInt(batch_size * sequence_length * gas), RInt(elapsed * world_size))

\* tokens_per_sec = batch * seq * gas / elapsed * world_size
tokens_per_sec(batch_size, sequence_length, gas, elapsed, world_size) ==
    RMul(RDiv(RInt(batch_size * sequence_length * gas), RInt(elapsed)),
         RInt(world_size))

\* tokens_per_sec / world_size
tokens_per_sec_per_gpu(tps, world_size) == RDiv(tps, RInt(world_size))

\* flops_per_iteration; batch_size is already batch_size * gas here
flops_per_iteration(batch_size, sequence_length, config) ==
    LET num_layers == config.num_hidden_layers
        hidden_size == config.hidden_size
        vocab_size == config.vocab_size
        intermediate_size == config.intermediate_size
        num_attention_heads == config.num_attention_heads
        attention ==
            RMul(RAdd(RAdd(RInt(1),
                           Rat(config.num_key_value_heads, num_attention_heads)),
                      Rat(sequence_length, hidden_size)),
                 query_projection_to_hidden_size_ratio(hidden_size,
                                                       num_attention_heads))
        mlp ==
            RMul(RMul(Rat(intermediate_size, hidden_size),
                      RInt(num_experts_routed_to(config))),
                 activation_function_factor(config.hidden_act))
        logit == Rat(vocab_size, 2 * num_layers * hidden_size)
    IN  RMul(RInt(12 * batch_size * sequence_length
                  * (hidden_size * hidden_size) * num_layers),
             RAdd(RAdd(attention, mlp), logit))

\* 10 ** 12 is kept as its exponent
TeraExponent == 12

\* tflops = flops / (elapsed * 10 ** 12): mantissa * 10 ^ (-exp10)
tflops(flops, elapsed) ==
    [mantissa |-> RDiv(flops, RInt(elapsed)), exp10 |-> TeraExponent]

\* ------------------------------------- log_wandb: the optimizer statistics
\* a tensor, or Python's None
Tensor(data) == [none |-> FALSE, data |-> data]

None == [none |-> TRUE, data |-> <<>>]

\* deepspeed's safe_get_local_optimizer_state: the parameter's local shard of
\* the optimizer state `key`, None while the optimizer holds no state
safe_get_local_optimizer_state(local_state, key, optimizer) ==
    IF optimizer.state THEN Tensor(local_state[key]) ELSE None

safe_get_local_fp32_param(local_state) == Tensor(local_state.hp_param)

safe_get_local_grad(local_state) == Tensor(local_state.grad)

\* the loop over model.named_parameters() raises at its first statement when
\* a parameter's exp_avg_sq is None (torch.norm(None))
LoopRaises(parameters, optimizer) ==
    \E i \in 1..Len(parameters) :
        \/ safe_get_local_optimizer_state(parameters[i], "exp_avg_sq", optimizer).none
        \/ safe_get_local_optimizer_state(parameters[i], "exp_avg", optimizer).none

ZeroStates ==
    [s1 |-> [i \in 0..7 |-> 0], s2 |-> [i \in 0..3 |-> 0]]

\* one pass of the loop body over the parameter local_state
AccumulateStates(acc, local_state, optimizer) ==
    LET local_hp_param == safe_get_local_fp32_param(local_state).data
        local_exp_avg ==
            safe_get_local_optimizer_state(local_state, "exp_avg", optimizer).data
        local_exp_avg_sq ==
            safe_get_local_optimizer_state(local_state, "exp_avg_sq", optimizer).data
    IN  [s1 |-> [i \in 0..7 |->
                    acc.s1[i] +
                    CASE i = 0 -> NormSq(local_exp_avg_sq)
                      [] i = 1 -> NormSq(TensorSqrt(local_exp_avg_sq))
                      [] i = 2 -> NormSq(local_exp_avg)
                      [] i = 3 -> NormSq(local_hp_param)
                      [] i = 4 -> NormL1(local_exp_avg_sq)
                      [] i = 5 -> NormL1(TensorSqrt(local_exp_avg_sq))
                      [] i = 6 -> NormL1(local_exp_avg)
                      [] i = 7 -> NormL1(local_hp_param)],
         s2 |-> [i \in 0..3 |->
                    CASE i = 0 -> Max2(acc.s2[0],
                                       Max2(Abs(TensorMax(local_exp_avg_sq)),
                                            Abs(TensorMin(local_exp_avg_sq))))
                      [] i = 1 -> Max2(acc.s2[1],
                                       TensorMax(TensorSqrt(local_exp_avg_sq)))
                      [] i = 2 -> Max2(acc.s2[2],
                                       Max2(Abs(TensorMax(local_exp_avg)),
                                            Abs(TensorMin(local_exp_avg))))
                      [] i = 3 -> Max2(acc.s2[3],
                                       Max2(Abs(TensorMax(local_hp_param)),
                                            Abs(TensorMin(local_hp_param))))]]

\* optimizer_states_1 and optimizer_states_2 after the whole loop
RECURSIVE OptimizerStates(_, _)
OptimizerStates(parameters, optimizer) ==
    IF parameters = <<>>
    THEN ZeroStates
    ELSE AccumulateStates(
             OptimizerStates(SubSeq(parameters, 1, Len(parameters) - 1), optimizer),
             parameters[Len(parameters)], optimizer)

\* x ** 0.5, kept symbolic
SqrtOf(x) == [sqrt_of |-> x]

\* the keys written under `if optimizer.state:`
OptimizerStateKeys ==
    {"optimizer/variance_l2", "optimizer/variance_sqrt_l2",
     "optimizer/momentum_l2", "optimizer/weight_l2",
     "optimizer/variance_l1", "optimizer/variance_sqrt_l1",
     "optimizer/momentum_l1", "optimizer/weight_l1",
     "optimizer/variance_abs_max", "optimizer/variance_sqrt_abs_max",
     "optimizer/momentum_abs_max", "optimizer/weight_abs_max",
     "utils/grad-norm"}

OptimizerStateEntries(parameters, optimizer) ==
    LET st == OptimizerStates(parameters, optimizer)
        local_hp_grad == safe_get_local_grad(parameters[Len(parameters)]).data
    IN  [k \in OptimizerStateKeys |->
            CASE k = "optimizer/variance_l2" -> SqrtOf(st.s1[0])
              [] k = "optimizer/variance_sqrt_l2" -> SqrtOf(st.s1[1])
              [] k = "optimizer/momentum_l2" -> SqrtOf(st.s1[2])
              [] k = "optimizer/weight_l2" -> SqrtOf(st.s1[3])
              [] k = "optimizer/variance_l1" -> st.s1[4]
              [] k = "optimizer/variance_sqrt_l1" -> st.s1[5]
              [] k = "optimizer/momentum_l1" -> st.s1[6]
              [] k = "optimizer/weight_l1" -> st.s1[7]
              [] k = "optimizer/variance_abs_max" -> st.s2[0]
              [] k = "optimizer/variance_sqrt_abs_max" -> st.s2[1]
              [] k = "optimizer/momentum_abs_max" -> st.s2[2]
              [] k = "optimizer/weight_abs_max" -> st.s2[3]
              [] k = "utils/grad-norm" -> SqrtOf(NormSq(local_hp_grad))]

\* ------------------------------------------------ log_wandb: the whole call
EmptyRecord == [k \in {} |-> 0]

\* the keys written before the optimizer statistics (lines 46-60)
HeadKeys ==
    {"training/loss", "training/load_balancing_loss", "training/perplexity",
     "utils/batch_size", "utils/global_batch_size", "utils/seq_len",
     "utils/gradient_accumulation_steps", "utils/iteration", "optimizer/lr"}

\* the keys written after them (lines 117-164)
StatsKeys ==
    {"stats/1_iteration_time", "stats/tokens_per_sec",
     "stats/tokens_per_sec_per_gpu", "stats/tflops"}

\* wandb_stats as it stands when wandb.log is reached
wandb_stats(c) ==
    LET batch_size == c.real_batch_size
        sequence_length == c.real_seq_len
        gas == c.gradient_accumulation_steps
        head ==
            [k \in HeadKeys |->
                CASE k = "training/loss" -> c.accumulation_loss
                  [] k = "training/load_balancing_loss" -> c.load_balancing_loss
                  [] k = "training/perplexity" -> [exp_of |-> c.accumulation_loss]
                  [] k = "utils/batch_size" -> batch_size
                  [] k = "utils/global_batch_size" ->
                         batch_size * c.world_size * gas
                  [] k = "utils/seq_len" -> sequence_length
                  [] k = "utils/gradient_accumulation_steps" -> gas
                  [] k = "utils/iteration" -> c.iteration
                  [] k = "optimizer/lr" -> c.optimizer.lr]
        opt ==
            IF c.optimizer.state
            THEN OptimizerStateEntries(c.model.parameters, c.optimizer)
            ELSE EmptyRecord
        tps == tokens_per_sec(batch_size, sequence_length, gas,
                              c.elapsed, c.world_size)
        flops == flops_per_iteration(batch_size * gas, sequence_length,
                                     c.model.config)
        stats ==
            [k \in StatsKeys |->
                CASE k = "stats/1_iteration_time" -> RInt(c.elapsed)
                  [] k = "stats/tokens_per_sec" -> tps
                  [] k = "stats/tokens_per_sec_per_gpu" ->
                         tokens_per_sec_per_gpu(tps, c.world_size)
                  [] k = "stats/tflops" -> tflops(flops, c.elapsed)]
    IN  head @@ opt @@ stats

\* the outcome of log_wandb(c): the exception that ended it ("none": it
\* returned), whether wandb.log was called, the record it was called with,
\* whether the sink took it, and whether the progress line was printed.
\* c.wandb_run tells whether wandb.init has run in the calling process;
\* wandb.log raises wandb.Error without it.
log_wandb(c) ==
    IF LoopRaises(c.model.parameters, c.optimizer)
    THEN [raised |-> "TypeError", log_called |-> FALSE, logged |-> FALSE,
          record |-> EmptyRecord, step |-> c.iteration, printed |-> FALSE]
    ELSE IF ~c.wandb_run
    THEN [raised |-> "wandb.Error", log_called |-> TRUE, logged |-> FALSE,
          record |-> wandb_stats(c), step |-> c.iteration, printed |-> FALSE]
    ELSE [raised |-> "none", log_called |-> TRUE, logged |-> TRUE,
          record |-> wandb_stats(c), step |-> c.iteration, printed |-> TRUE]

\* ------------------------------------------------------------------ state
VARIABLES
    cfg,        \* the parsed command line, the same on every rank
    ckpt,       \* the entries of the checkpoint root args.load
    pc,         \* each rank's position in main
    args,       \* each rank's attributes set on args by main
    wandb_run,  \* whether wandb.init has run in the rank's process
    rng_loaded, \* whether load_rng_state_dict has returned on the rank
    sampled,    \* whether the rank has drawn from its random generators
    dataloader, \* the consumed_samples each rank's dataloaders were built with
    arrived,    \* the number of barriers each rank has entered
    trained,    \* the training iterations each rank has completed
    raised,     \* the exception that ended the rank, "none" otherwise
    log_calls,  \* the calls of wandb.log made, by rank and step
    sink,       \* the records the metrics sink holds
    console,    \* the progress lines printed
    call,       \* the last call of log_wandb made on its own
    out         \* and its outcome

vars ==
    <<cfg, ckpt, pc, args, wandb_run, rng_loaded, sampled, dataloader,
      arrived, trained, raised, log_calls, sink, console, call, out>>

\* ------------------------------------------------------- main: its helpers
Ranks == 0..(NumRanks - 1)

\* int(os.environ["WORLD_SIZE"])
world_size == NumRanks

\* is_rank_0()
is_rank_0(r) == r = 0

\* `if args.load:`; --load defaults to None
NoLoad == "None"

Truthy(load) == load # NoLoad

\* the names a checkpoint root can hold: <iteration> directories and others
DirEntries ==
    {[is_int |-> TRUE, value |-> i] : i \in 1..MaxCkpt}
        \cup {[is_int |-> FALSE, value |-> 0]}

RECURSIVE MaxOf(_)
MaxOf(S) ==
    IF S = {} THEN 0
    ELSE LET x == CHOOSE y \in S : TRUE
         IN  Max2(x, MaxOf(S \ {x}))

\* get_latest_iteration(args.load) on the checkpoint root `root`: the largest
\* integer-named entry, 0 for an unset, missing or empty root
get_latest_iteration(load, root) ==
    IF ~Truthy(load) \/ ~root.exists
    THEN 0
    ELSE MaxOf({e.value : e \in {d \in root.entries : d.is_int}})

\* load_rng_state_dict(args.load): restores the generators from the latest
\* checkpoint, and has nothing to restore when there is none
load_rng_state_dict(load, root) ==
    IF get_latest_iteration(load, root) = 0 THEN "nothing" ELSE "restored"

\* args.gradient_accumulation_steps (line 64)
gradient_accumulation_steps(global_batch_size, micro_batch_size, ws) ==
    global_batch_size \div (micro_batch_size * ws)

\* an off-by-one: the iteration after the latest counted as consumed
consumed_train_samples_next_iteration(global_batch_size, iteration) ==
    global_batch_size * (iteration + 1)

\* args.consumed_train_samples (line 111)
consumed_train_samples(global_batch_size, iteration) ==
    global_batch_size * iteration

\* the evaluation count rounded up instead of floored
consumed_valid_samples_rounded_up(global_batch_size, iteration, eval_interval, eval_iters) ==
    global_batch_size
        * ((iteration + eval_interval - 1) \div eval_interval) * eval_iters

\* args.consumed_valid_samples (lines 112-113)
consumed_valid_samples(global_batch_size, iteration, eval_interval, eval_iters) ==
    global_batch_size * (iteration \div eval_interval) * eval_iters

\* torch.distributed.barrier(): a rank leaves once every rank has entered
BarrierOpen(r) == \A q \in Ranks : arrived[q] >= arrived[r]

SetArgs(r, new) == args' = [args EXCEPT ![r] = new @@ @]

\* the model get_model builds and the batch shape train feeds the reporter
TrainedConfig ==
    [num_hidden_layers |-> 2, hidden_size |-> 4, vocab_size |-> 8,
     hidden_act |-> "silu", intermediate_size |-> 8,
     num_attention_heads |-> 2, num_key_value_heads |-> 1,
     num_experts_per_tok |-> 2]

ShardA ==
    [hp_param |-> <<3, -1>>, grad |-> <<1, 0>>,
     exp_avg |-> <<-2, 1>>, exp_avg_sq |-> <<4, 1>>]

ShardB ==
    [hp_param |-> <<-4>>, grad |-> <<2>>,
     exp_avg |-> <<1>>, exp_avg_sq |-> <<9>>]

TrainedSeqLen == 2

TrainedElapsed == 1

\* ------------------------------------------------------------ main: Init
Configs ==
    [load : {NoLoad, "checkpoints"},
     global_batch_size : 1..MaxGlobalBatch,
     micro_batch_size : {1, MaxMicroBatch},
     eval_interval : 1..MaxEvalInterval,
     eval_iters : {1, MaxEvalIters},
     wandb_name : {"None", "run"}]

Roots(load) ==
    IF Truthy(load)
    THEN {[exists |-> FALSE, entries |-> {}]}
             \cup [exists : {TRUE}, entries : SUBSET DirEntries]
    ELSE {[exists |-> FALSE, entries |-> {}]}

NoCall == [made |-> FALSE]

InitMain ==
    /\ cfg \in Configs
    /\ ckpt \in Roots(cfg.load)
    /\ pc = [r \in Ranks |-> "setup"]
    /\ args = [r \in Ranks |-> EmptyRecord]
    /\ wandb_run = [r \in Ranks |-> FALSE]
    /\ rng_loaded = [r \in Ranks |-> FALSE]
    /\ sampled = [r \in Ranks |-> FALSE]
    /\ dataloader = [r \in Ranks |-> EmptyRecord]
    /\ arrived = [r \in Ranks |-> 0]
    /\ trained = [r \in Ranks |-> 0]
    /\ raised = [r \in Ranks |-> "none"]
    /\ log_calls = {}
    /\ sink = {}
    /\ console = {}

Init ==
    /\ InitMain
    /\ call = NoCall
    /\ out = NoCall

\* --------------------------------------------------------- main: its steps
\* lines 50-94: the arguments, the accumulation steps, wandb.init on rank 0
Setup(r) ==
    /\ pc[r] = "setup"
    /\ SetArgs(r, [rank |-> r, world_size |-> world_size,
                   gradient_accumulation_steps |->
                       gradient_accumulation_steps(cfg.global_batch_size,
                                                   cfg.micro_batch_size,
                                                   world_size)])
    /\ wandb_run' = [wandb_run EXCEPT ![r] = cfg.wandb_name # "None" /\ is_rank_0(r)]
    /\ pc' = [pc EXCEPT ![r] = "get_latest"]
    /\ UNCHANGED <<cfg, ckpt, rng_loaded, sampled, dataloader, arrived,
                   trained, raised, log_calls, sink, console, call, out>>

\* lines 96-97
GetLatest(r) ==
    /\ pc[r] = "get_latest"
    /\ SetArgs(r, [iteration |-> get_latest_iteration(cfg.load, ckpt)])
    /\ pc' = [pc EXCEPT ![r] = "barrier_iter"]
    /\ UNCHANGED <<cfg, ckpt, wandb_run, rng_loaded, sampled, dataloader,
                   arrived, trained, raised, log_calls, sink, console, call, out>>

\* the barriers of lines 98, 103 and 123: entering one
BarrierPcs == {"barrier_iter", "barrier_rng", "barrier_data"}

EnterBarrier(r) ==
    /\ pc[r] \in BarrierPcs
    /\ arrived' = [arrived EXCEPT ![r] = @ + 1]
    /\ pc' = [pc EXCEPT ![r] =
                 CASE pc[r] = "barrier_iter" -> "in_barrier_iter"
                   [] pc[r] = "barrier_rng" -> "in_barrier_rng"
                   [] pc[r] = "barrier_data" -> "in_barrier_data"]
    /\ UNCHANGED <<cfg, ckpt, args, wandb_run, rng_loaded, sampled, dataloader,
                   trained, raised, log_calls, sink, console, call, out>>

\* the statement after the barrier of line 98: `if args.load:` (line 101)
AfterBarrierIter == IF Truthy(cfg.load) THEN "load_rng" ELSE "data"

\* leaving a barrier, to the statement after it
LeaveBarrier(r) ==
    /\ pc[r] \in {"in_barrier_iter", "in_barrier_rng", "in_barrier_data"}
    /\ BarrierOpen(r)
    /\ pc' = [pc EXCEPT ![r] =
                 CASE pc[r] = "in_barrier_iter" -> AfterBarrierIter
                   [] pc[r] = "in_barrier_rng" -> "data"
                   [] pc[r] = "in_barrier_data" -> "model"]
    /\ UNCHANGED <<cfg, ckpt, args, wandb_run, rng_loaded, sampled, dataloader,
                   arrived, trained, raised, log_calls, sink, console, call, out>>

\* the barrier of line 103 left out
AfterLoadRngNoBarrier == "data"

\* the statement main runs after load_rng_state_dict (line 103)
AfterLoadRng == "barrier_rng"

\* line 102
LoadRng(r) ==
    /\ pc[r] = "load_rng"
    /\ load_rng_state_dict(cfg.load, ckpt) \in {"nothing", "restored"}
    /\ rng_loaded' = [rng_loaded EXCEPT ![r] = TRUE]
    /\ pc' = [pc EXCEPT ![r] = AfterLoadRng]
    /\ UNCHANGED <<cfg, ckpt, args, wandb_run, sampled, dataloader, arrived,
                   trained, raised, log_calls, sink, console, call, out>>

\* lines 105-122: the datasets, the consumed samples, the two dataloaders
BuildData(r) ==
    /\ pc[r] = "data"
    /\ LET train == consumed_train_samples(cfg.global_batch_size,
                                           args[r].iteration)
           valid == consumed_valid_samples(cfg.global_batch_size,
                                           args[r].iteration,
                                           cfg.eval_interval, cfg.eval_iters)
       IN  /\ SetArgs(r, [consumed_train_samples |-> train,
                          consumed_valid_samples |-> valid])
           /\ dataloader' = [dataloader EXCEPT ![r] =
                                [train |-> train, validation |-> valid]]
    /\ sampled' = [sampled EXCEPT ![r] = TRUE]
    /\ pc' = [pc EXCEPT ![r] = "barrier_data"]
    /\ UNCHANGED <<cfg, ckpt, wandb_run, rng_loaded, arrived, trained, raised,
                   log_calls, sink, console, call, out>>

\* lines 125-207: the model, the optimizer, the scheduler, their checkpoint
\* loads under `if args.load:`, accelerator.prepare
BuildModel(r) ==
    /\ pc[r] = "model"
    /\ pc' = [pc EXCEPT ![r] = "train"]
    /\ UNCHANGED <<cfg, ckpt, args, wandb_run, rng_loaded, sampled, dataloader,
                   arrived, trained, raised, log_calls, sink, console, call, out>>

\* ------------------------------------------------------ the training loop
\* the arguments train() gives the reporter; whether the optimizer holds
\* state by then is the loop's to give
TrainCall(r, state) ==
    [real_batch_size |-> cfg.micro_batch_size,
     real_seq_len |-> TrainedSeqLen,
     model |-> [config |-> TrainedConfig, parameters |-> <<ShardA, ShardB>>],
     accumulation_loss |-> RInt(2),
     load_balancing_loss |-> RInt(0),
     optimizer |-> [lr |-> RInt(1), state |-> state],
     iteration |-> args[r].iteration + trained[r] + 1,
     gradient_accumulation_steps |-> args[r].gradient_accumulation_steps,
     world_size |-> world_size,
     elapsed |-> TrainedElapsed,
     wandb_run |-> wandb_run[r]]

\* one iteration of train() on rank r: with a sink configured
\* (args.wandb_name) the rank runs the reporter, on every rank alike
TrainIteration(r) ==
    /\ pc[r] = "train"
    /\ trained[r] < MaxTrainIters
    /\ IF cfg.wandb_name = "None"
       THEN /\ trained' = [trained EXCEPT ![r] = @ + 1]
            /\ UNCHANGED <<pc, raised, log_calls, sink, console>>
       ELSE \E state \in BOOLEAN :
              \E o \in {log_wandb(TrainCall(r, state))} :
                /\ raised' = [raised EXCEPT ![r] = o.raised]
                /\ pc' = [pc EXCEPT ![r] =
                             IF o.raised = "none" THEN "train" ELSE "failed"]
                /\ trained' = [trained EXCEPT ![r] =
                                  IF o.raised = "none" THEN @ + 1 ELSE @]
                /\ log_calls' =
                      IF o.log_called
                      THEN log_calls \cup {[rank |-> r, step |-> o.step]}
                      ELSE log_calls
                /\ sink' =
                      IF o.logged
                      THEN sink \cup {[rank |-> r, step |-> o.step,
                                       record |-> o.record]}
                      ELSE sink
                /\ console' =
                      IF o.printed
                      THEN console \cup {[rank |-> r, step |-> o.step]}
                      ELSE console
    /\ UNCHANGED <<cfg, ckpt, args, wandb_run, rng_loaded, sampled, dataloader,
                   arrived, call, out>>

Finish(r) ==
    /\ pc[r] = "train"
    /\ trained[r] = MaxTrainIters
    /\ pc' = [pc EXCEPT ![r] = "done"]
    /\ UNCHANGED <<cfg, ckpt, args, wandb_run, rng_loaded, sampled, dataloader,
                   arrived, trained, raised, log_calls, sink, console, call, out>>

Next ==
    \E r \in Ranks :
        \/ Setup(r)
        \/ GetLatest(r)
        \/ EnterBarrier(r)
        \/ LeaveBarrier(r)
        \/ LoadRng(r)
        \/ BuildData(r)
        \/ BuildModel(r)
        \/ TrainIteration(r)
        \/ Finish(r)

Spec == Init /\ [][Next]_vars

\* ------------------------------------------- the reporter called on its own
Activations == {"gelu", "gelu_new", "silu", "swish"}

Divisors(n) == {k \in 1..n : n % k = 0}

ModelConfigs ==
    {c \in [num_hidden_layers : {1, MaxLayers},
            hidden_size : 1..MaxHidden,
            vocab_size : {1, MaxSize},
            hidden_act : Activations,
            intermediate_size : {1, MaxSize},
            num_attention_heads : 1..MaxHeads,
            num_key_value_heads : 1..MaxHeads,
            num_experts_per_tok : {0, 1, MaxExperts}] :
        /\ c.num_attention_heads <= c.hidden_size
        /\ c.num_key_value_heads \in Divisors(c.num_attention_heads)}

\* a config whose num_experts_per_tok is drawn as 0 carries no such field
WithoutExperts(c) ==
    [k \in DOMAIN c \ {"num_experts_per_tok"} |-> c[k]]

AsConfig(c) == IF c.num_experts_per_tok = 0 THEN WithoutExperts(c) ELSE c

ReportCalls ==
    [real_batch_size : {1, MaxBatch},
     real_seq_len : {1, MaxSeq},
     config : ModelConfigs,
     state : BOOLEAN,
     gradient_accumulation_steps : {0, MaxGAS},
     world_size : {1, MaxWorld},
     elapsed : {1, MaxElapsed}]

ReportCall(i) ==
    [made |-> TRUE,
     real_batch_size |-> i.real_batch_size,
     real_seq_len |-> i.real_seq_len,
     model |-> [config |-> AsConfig(i.config), parameters |-> <<ShardA, ShardB>>],
     accumulation_loss |-> RInt(2),
     load_balancing_loss |-> RInt(0),
     optimizer |-> [lr |-> RInt(1), state |-> i.state],
     iteration |-> 1,
     gradient_accumulation_steps |-> i.gradient_accumulation_steps,
     world_size |-> i.world_size,
     elapsed |-> i.elapsed,
     wandb_run |-> TRUE]

\* the reporter is entered with its arguments drawn and has not run yet
InitReport ==
    /\ InitMain
    /\ cfg.load = NoLoad
    /\ cfg.global_batch_size = 1
    /\ cfg.micro_batch_size = 1
    /\ cfg.eval_interval = 1
    /\ cfg.eval_iters = 1
    /\ cfg.wandb_name = "run"
    /\ call \in {ReportCall(i) : i \in ReportCalls}
    /\ out = NoCall

\* log_wandb runs on the drawn arguments
Report ==
    /\ ~out.made
    /\ out' = [made |-> TRUE] @@ log_wandb(call)
    /\ UNCHANGED <<call, cfg, ckpt, pc, args, wandb_run, rng_loaded, sampled,
                   dataloader, arrived, trained, raised, log_calls, sink,
                   console>>

NextReport == Report

SpecReport == InitReport /\ [][NextReport]_vars

\* ================================================================= claims
StartupPcs ==
    {"setup", "get_latest", "barrier_iter", "in_barrier_iter", "load_rng",
     "barrier_rng", "in_barrier_rng", "data", "barrier_data",
     "in_barrier_data", "model"}

\* the positions of main after the RNG barrier of line 103
AfterRngPcs ==
    {"data", "barrier_data", "in_barrier_data", "model", "train", "done",
     "failed"}

HasDataloaders(r) == "train" \in DOMAIN dataloader[r]

\* C1: on every rank, the offsets the two dataloaders are built with are
\* consumed_train_samples = global_batch_size * i and consumed_valid_samples =
\* global_batch_size * q * eval_iters for the latest iteration i, where q is
\* the floor of i / eval_interval (q * eval_interval <= i < (q + 1) *
\* eval_interval), never rounded up or to nearest.
C1_ConsumedSamples ==
    \A r \in Ranks :
        HasDataloaders(r) =>
            LET i == args[r].iteration
                gbs == cfg.global_batch_size
            IN  /\ i = get_latest_iteration(cfg.load, ckpt)
                /\ dataloader[r].train = gbs * i
                /\ args[r].consumed_train_samples = gbs * i
                /\ \E q \in 0..i :
                      /\ q * cfg.eval_interval <= i
                      /\ i < (q + 1) * cfg.eval_interval
                      /\ dataloader[r].validation = gbs * q * cfg.eval_iters
                      /\ args[r].consumed_valid_samples = gbs * q * cfg.eval_iters

\* C1 witness: a rank built its dataloaders from a latest iteration that
\* eval_interval does not divide, so rounding would change the valid count
C1_Witness ==
    \E r \in Ranks :
        /\ HasDataloaders(r)
        /\ args[r].iteration > 0
        /\ args[r].iteration % cfg.eval_interval # 0
        /\ dataloader[r].train > 0

\* C2: a rank whose load_rng_state_dict has returned is, until it starts the
\* dataset step, at or inside the barrier that follows it; no rank is at or
\* past the dataset step before every rank has finished its RNG restore; and
\* no rank has drawn random numbers before its own restore (all of this when
\* main restores RNG state, that is under `if args.load:`).
C2_BarrierAfterRngRestore ==
    \A r \in Ranks :
        /\ rng_loaded[r] =>
              pc[r] \in {"barrier_rng", "in_barrier_rng"} \cup AfterRngPcs
        /\ rng_loaded[r] => Truthy(cfg.load)
        /\ (Truthy(cfg.load) /\ pc[r] \in AfterRngPcs) =>
              \A q \in Ranks : rng_loaded[q]
        /\ (Truthy(cfg.load) /\ sampled[r]) => rng_loaded[r]

\* C2 witness: one rank waits inside the RNG barrier while another has not
\* restored its RNG state yet
C2_Witness ==
    \E r, q \in Ranks :
        /\ pc[r] = "in_barrier_rng"
        /\ rng_loaded[r]
        /\ ~rng_loaded[q]

\* the checkpoint root is unset, missing, or holds no integer-named entry
NoCheckpoint ==
    \/ ~Truthy(cfg.load)
    \/ ~ckpt.exists
    \/ \A d \in ckpt.entries : ~d.is_int

C4_OnlyLeaderEmits ==
    /\ \A e \in log_calls : e.rank = 0
    /\ \A e \in sink : e.rank = 0
    /\ \A e \in console : e.rank = 0
    /\ \A e1, e2 \in sink : e1.step = e2.step => e1 = e2

\* C10: gradient_accumulation_steps >= 1, one iteration's samples
\* micro_batch_size * world_size * gradient_accumulation_steps (the reporter's
\* utils/global_batch_size) equal the configured global_batch_size, and so
\* consumed_train_samples counts the samples `iteration` iterations consumed.
C10_GlobalBatchMatches ==
    /\ \A r \in Ranks :
          "gradient_accumulation_steps" \in DOMAIN args[r] =>
              LET gas == args[r].gradient_accumulation_steps
                  per_iteration == cfg.micro_batch_size * world_size * gas
              IN  /\ gas >= 1
                  /\ per_iteration = cfg.global_batch_size
                  /\ HasDataloaders(r) =>
                        dataloader[r].train = per_iteration * args[r].iteration
    /\ \A e \in sink :
          e.record["utils/global_batch_size"] = cfg.global_batch_size

\* ------------------------------------------------- claims on the reporter
Reported == out.made /\ out.raised = "none"

\* the keys under the prefixes optimizer/, training/, utils/ and stats/
OptimizerPrefixKeys ==
    {"optimizer/lr", "optimizer/variance_l2", "optimizer/variance_sqrt_l2",
     "optimizer/momentum_l2", "optimizer/weight_l2",
     "optimizer/variance_l1", "optimizer/variance_sqrt_l1",
     "optimizer/momentum_l1", "optimizer/weight_l1",
     "optimizer/variance_abs_max", "optimizer/variance_sqrt_abs_max",
     "optimizer/momentum_abs_max", "optimizer/weight_abs_max"}

OtherPrefixKeys ==
    {"training/loss", "training/load_balancing_loss", "training/perplexity",
     "utils/batch_size", "utils/global_batch_size", "utils/seq_len",
     "utils/gradient_accumulation_steps", "utils/iteration",
     "stats/1_iteration_time", "stats/tokens_per_sec",
     "stats/tokens_per_sec_per_gpu", "stats/tflops"}

\* 12 * B * S * H^2 * L * ((1 + KV/A + S/H) * (qps/H) + (I/H) * E * (f2/2)
\* + V / (2 * L * H)) over the common denominator 2 * A * H^2 * L, divided by
\* elapsed * 10^12, for the call c; qps is the query projection size and f2
\* twice the activation factor
StatedTflops(c, qps, E, f2) ==
    LET m == c.model.config
        H == m.hidden_size
        A == m.num_attention_heads
        KV == m.num_key_value_heads
        I == m.intermediate_size
        V == m.vocab_size
        L == m.num_hidden_layers
        S == c.real_seq_len
        B == c.real_batch_size * c.gradient_accumulation_steps
        bracket ==
            (A * H + KV * H + S * A) * qps * 2 * L
                + I * E * f2 * A * H * L
                + V * A * H
    IN  [mantissa |-> Rat(12 * B * S * H * H * L * bracket,
                          2 * A * H * H * L * c.elapsed),
         exp10 |-> 12]

CodeE(c) ==
    IF "num_experts_per_tok" \in DOMAIN c.model.config
    THEN c.model.config.num_experts_per_tok
    ELSE 1

CodeF2(c) == IF c.model.config.hidden_act = "silu" THEN 3 ELSE 2

FloorQps(c) ==
    LET H == c.model.config.hidden_size
        A == c.model.config.num_attention_heads
    IN  (CHOOSE q \in 0..H : q * A <= H /\ H < (q + 1) * A) * A

\* C3: with the optimizer state absent, the reporter does not raise, its
\* record reaches the sink without any optimizer/* key, and every
\* training/*, utils/* and stats/* field is in it.
C3_AbsentOptimizerState ==
    (out.made /\ ~call.optimizer.state) =>
        /\ out.raised = "none"
        /\ out.logged
        /\ DOMAIN out.record \cap OptimizerPrefixKeys = {}
        /\ OtherPrefixKeys \subseteq DOMAIN out.record

\* C5 as stated: stats/tflops is the stated formula with kv_channels = H / A
\* in true division, so that the query projection size kv_channels * A is H
\* and query_ratio is 1, also when A does not divide H.
C5_FlopsTrueDivision ==
    Reported =>
        out.record["stats/tflops"] =
            StatedTflops(call, call.model.config.hidden_size, CodeE(call),
                         CodeF2(call))

\* C5 amended: stats/tflops is the stated formula with kv_channels = H // A in
\* floor division, so query_ratio = ((H // A) * A) / H, with B = batch_size *
\* gradient_accumulation_steps, E and F as log_wandb takes them, and
\* tflops = flops_per_iteration / (elapsed * 10^12).
C5_FlopsFloorDivision ==
    Reported =>
        out.record["stats/tflops"] =
            StatedTflops(call, FloorQps(call), CodeE(call), CodeF2(call))

\* C5 witness: a report whose num_attention_heads does not divide hidden_size
\* and whose flops are not zero
C5_Witness ==
    /\ Reported
    /\ call.model.config.hidden_size % call.model.config.num_attention_heads # 0
    /\ call.model.config.hidden_size > call.model.config.num_attention_heads
    /\ out.record["stats/tflops"].mantissa[1] > 0

\* C7: for the same batch_size, sequence_length, gradient_accumulation_steps
\* and elapsed time, the report at world_size k * w has k times the
\* tokens_per_sec of the report at world_size w and the same
\* tokens_per_sec_per_gpu, which is tokens_per_sec / world_size.
C7_TokensPerSecLinear ==
    Reported =>
        /\ \A k \in 1..MaxScale :
              LET scaled ==
                      log_wandb([call EXCEPT !.world_size = k * call.world_size])
              IN  /\ scaled.record["stats/tokens_per_sec"][1]
                         * out.record["stats/tokens_per_sec"][2]
                       = k * out.record["stats/tokens_per_sec"][1]
                           * scaled.record["stats/tokens_per_sec"][2]
                  /\ scaled.record["stats/tokens_per_sec_per_gpu"]
                       = out.record["stats/tokens_per_sec_per_gpu"]
        /\ out.record["stats/tokens_per_sec_per_gpu"][1]
               * call.world_size * out.record["stats/tokens_per_sec"][2]
             = out.record["stats/tokens_per_sec"][1]
                 * out.record["stats/tokens_per_sec_per_gpu"][2]

\* C7 witness: a report on several ranks with a throughput above zero
C7_Witness ==
    /\ Reported
    /\ call.world_size > 1
    /\ out.record["stats/tokens_per_sec"][1] > 0

\* C8: without a num_experts_per_tok field the report does not fail for want
\* of it and is the report of the same model with num_experts_per_tok = 1;
\* with the field, the feed-forward term of the reported flops carries the
\* field's value as E.
C8_ExpertsDefault ==
    (out.made /\ call.optimizer.state) =>
        /\ out.raised = "none"
        /\ IF "num_experts_per_tok" \in DOMAIN call.model.config
           THEN out.record["stats/tflops"] =
                    StatedTflops(call, FloorQps(call),
                                 call.model.config.num_experts_per_tok,
                                 CodeF2(call))
           ELSE out.record =
                    log_wandb([call EXCEPT !.model.config =
                                  [num_experts_per_tok |-> 1] @@ @]).record

\* C8 witness: a finished report for a model without the field
C8_Witness ==
    /\ Reported
    /\ "num_experts_per_tok" \notin DOMAIN call.model.config
    /\ out.record["stats/tflops"].mantissa[1] > 0

\* the activation families
GeluFamily == {"gelu", "gelu_new"}

SiluFamily == {"silu", "swish"}

\* C9: the factor F in the feed-forward term of the reported flops is 1.0 for
\* every GELU-family activation and 1.5 for every SiLU-family activation.
C9_ActivationFactorByFamily ==
    Reported =>
        out.record["stats/tflops"] =
            StatedTflops(call, FloorQps(call), CodeE(call),
                         CASE call.model.config.hidden_act \in SiluFamily -> 3
                           [] call.model.config.hidden_act \in GeluFamily -> 2)

====
